---- MODULE Spec2Model ----
(***************************************************************************)
(* Model of src/src/App.tsx: the memoized mesh generator                   *)
(* (meshRectangularPlateV2 with its three module-level Maps), the baseline *)
(* generator (meshRectangularPlate) and the verifier (compareMeshResults). *)
(*                                                                         *)
(* JavaScript numbers are IEEE-754 doubles.  A finite double is modelled   *)
(* exactly as sign, mantissa bits (most significant first, no leading and  *)
(* no trailing zero) and a binary exponent: value = (-1)^neg * m * 2^e.    *)
(* Every arithmetic operator rounds its exact result to MantBits           *)
(* significant bits, ties to even, as the hardware does.  Exponent         *)
(* overflow and subnormals are outside the inputs enumerated here.         *)
(***************************************************************************)
EXTENDS Integers, Sequences, FiniteSets, TLC

MantBits == 53

\* ------------------------------------------------------------------------
\* Bit strings (most significant bit first)
\* ------------------------------------------------------------------------
RECURSIVE NatBits(_)
NatBits(n) == IF n = 0 THEN <<>> ELSE Append(NatBits(n \div 2), n % 2)

Zeros(k) == [x \in 1..k |-> 0]

\* number of zero bits before the first / after the last one bit
LeadZeros(b) ==
  IF \A i \in 1..Len(b) : b[i] = 0 THEN Len(b)
  ELSE (CHOOSE i \in 1..Len(b) : b[i] = 1 /\ \A k \in 1..(i - 1) : b[k] = 0) - 1

TrailZeros(b) ==
  IF \A i \in 1..Len(b) : b[i] = 0 THEN Len(b)
  ELSE Len(b) - (CHOOSE i \in 1..Len(b) : b[i] = 1 /\ \A k \in (i + 1)..Len(b) : b[k] = 0)

StripLead(b) == SubSeq(b, LeadZeros(b) + 1, Len(b))

\* School arithmetic on bit strings.  The digit loops are written as
\* divide-and-conquer scans so that their nesting depth is logarithmic.

\* carries out of positions hi, hi-1, ..., lo (in that order) of a*j + b*k
\* (a, b of equal length), c the carry into position hi; carries are floored,
\* so k may be negative
RECURSIVE CarryScan(_, _, _, _, _, _, _)
CarryScan(a, j, b, k, lo, hi, c) ==
  IF lo = hi THEN << (a[lo] * j + b[lo] * k + c) \div 2 >>
  ELSE LET mid == (lo + hi) \div 2
           low == CarryScan(a, j, b, k, mid + 1, hi, c)
       IN  low \o CarryScan(a, j, b, k, lo, mid, low[Len(low)])

\* a*j + b*k >= 0 as a bit string, a and b of equal length
LinBits(a, j, b, k) ==
  LET n == Len(a)
      C == CarryScan(a, j, b, k, 1, n, 0)
  IN  IF n = 0 THEN <<>>
      ELSE NatBits(C[n]) \o
           [p \in 1..n |-> (a[p] * j + b[p] * k + (IF p = n THEN 0 ELSE C[n - p])) % 2]

\* remainders of the prefixes b[1..lo], ..., b[1..hi] divided by n > 0,
\* r the remainder of b[1..lo-1]
RECURSIVE RemScan(_, _, _, _, _)
RemScan(b, n, lo, hi, r) ==
  IF lo = hi THEN << (2 * r + b[lo]) % n >>
  ELSE LET mid  == (lo + hi) \div 2
           left == RemScan(b, n, lo, mid, r)
       IN  left \o RemScan(b, n, mid + 1, hi, left[Len(left)])

\* quotient bits of b (non-empty) divided by n > 0, given R == RemScan of b
QuotBits(b, n, R) ==
  [i \in 1..Len(b) |->
     IF 2 * (IF i = 1 THEN 0 ELSE R[i - 1]) + b[i] >= n THEN 1 ELSE 0]

\* -1, 0, 1 as a < b, a = b, a > b; a and b of equal length
CmpBits(a, b) ==
  IF a = b THEN 0
  ELSE LET d == CHOOSE i \in 1..Len(a) : a[i] # b[i] /\ \A k \in 1..(i - 1) : a[k] = b[k]
       IN  IF a[d] > b[d] THEN 1 ELSE -1

\* ------------------------------------------------------------------------
\* Doubles
\* ------------------------------------------------------------------------
NaN == [k |-> "nan", neg |-> FALSE, m |-> <<>>, e |-> 0]
Inf(s) == [k |-> "inf", neg |-> s, m |-> <<>>, e |-> 0]
Zero == [k |-> "fin", neg |-> FALSE, m |-> <<>>, e |-> 0]

IsZero(x) == x.k = "fin" /\ x.m = <<>>

\* the double with magnitude c * 2^e, c without leading zeros and of at most
\* MantBits significant bits
Trim(s, c, e) ==
  IF c = <<>> THEN Zero
  ELSE [k |-> "fin", neg |-> s,
        m |-> SubSeq(c, 1, Len(c) - TrailZeros(c)), e |-> e + TrailZeros(c)]

\* the double with magnitude b * 2^e (b any bit string), no rounding needed
Canon(s, b, e) == Trim(s, StripLead(b), e)

\* c (more than MantBits bits, no leading zero) cut to MantBits bits, rounded
\* to nearest, ties to even; the result may be one bit longer
RoundBits(c) ==
  LET keep   == SubSeq(c, 1, MantBits)
      guard  == c[MantBits + 1]
      sticky == \E i \in (MantBits + 2)..Len(c) : c[i] = 1
  IN  IF guard = 1 /\ (sticky \/ c[MantBits] = 1)
        THEN LinBits(keep, 1, Zeros(MantBits - 1) \o <<1>>, 1)
        ELSE keep

\* round c * 2^e (c without leading zeros) to MantBits significant bits
RoundStripped(s, c, e) ==
  Trim(s, IF Len(c) <= MantBits THEN c ELSE RoundBits(c),
          IF Len(c) <= MantBits THEN e ELSE e + (Len(c) - MantBits))

\* round b * 2^e to MantBits significant bits, ties to even
Round(s, b, e) == RoundStripped(s, StripLead(b), e)

\* Number(n) for an integer n
FromInt(n) == Canon(n < 0, NatBits(IF n < 0 THEN -n ELSE n), 0)

\* j * x for an integer j (exactly representable) and a double x
FMul(j, x) ==
  LET a == IF j < 0 THEN -j ELSE j
      s == (j < 0) # x.neg
  IN  IF x.k = "nan" THEN NaN
      ELSE IF x.k = "inf" THEN (IF j = 0 THEN NaN ELSE Inf(s))
      ELSE IF j = 0 \/ IsZero(x) THEN Zero
      ELSE Round(s, LinBits(x.m, a, Zeros(Len(x.m)), 0), x.e)

\* x / n for a double x and an integer n (exactly representable)
\* p * 2^e / a rounded, given R == RemScan of p; a remainder left over is
\* recorded as one more (sticky) bit
QuotRound(s, p, a, e, R) ==
  Round(s, IF R[Len(p)] = 0 THEN QuotBits(p, a, R) ELSE Append(QuotBits(p, a, R), 1),
           IF R[Len(p)] = 0 THEN e ELSE e - 1)

Quotient(s, p, a, e) == QuotRound(s, p, a, e, RemScan(p, a, 1, Len(p), 0))

FDiv(x, n) ==
  LET a == IF n < 0 THEN -n ELSE n
      s == (n < 0) # x.neg
      K == MantBits + 2 + Len(NatBits(a))
  IN  IF x.k = "nan" THEN NaN
      ELSE IF x.k = "inf" THEN Inf(s)
      ELSE IF n = 0 THEN (IF IsZero(x) THEN NaN ELSE Inf(x.neg))
      ELSE IF IsZero(x) THEN Zero
      ELSE Quotient(s, x.m \o Zeros(K), a, x.e - K)

Min(a, b) == IF a < b THEN a ELSE b
Max(a, b) == IF a > b THEN a ELSE b

\* mantissa of the finite double x written at exponent e <= x.e, padded to n bits
Align(x, e, n) ==
  Zeros(n - (Len(x.m) + (IF IsZero(x) THEN 0 ELSE x.e - e)))
    \o x.m \o Zeros(IF IsZero(x) THEN 0 ELSE x.e - e)

\* |a - b|, or a + b when the operands have opposite signs
AbsDiffBits(a, b, opposite) ==
  IF opposite THEN LinBits(a, 1, b, 1)
  ELSE IF CmpBits(a, b) >= 0 THEN LinBits(a, 1, b, -1)
  ELSE LinBits(b, 1, a, -1)

\* Math.abs(x - y)
FAbsDiff(x, y) ==
  IF x.k = "nan" \/ y.k = "nan" THEN NaN
  ELSE IF x.k = "inf" /\ y.k = "inf" THEN (IF x.neg = y.neg THEN NaN ELSE Inf(FALSE))
  ELSE IF x.k = "inf" \/ y.k = "inf" THEN Inf(FALSE)
  ELSE LET e == IF IsZero(x) THEN y.e ELSE IF IsZero(y) THEN x.e ELSE Min(x.e, y.e)
           n == Max(IF IsZero(x) THEN 0 ELSE Len(x.m) + x.e - e,
                    IF IsZero(y) THEN 0 ELSE Len(y.m) + y.e - e)
       IN  Round(FALSE, AbsDiffBits(Align(x, e, n), Align(y, e, n), x.neg # y.neg), e)

\* x > y for doubles x >= 0 and y > 0 (false when x is NaN)
FGt(x, y) ==
  IF x.k = "nan" THEN FALSE
  ELSE IF x.k = "inf" THEN TRUE
  ELSE IF IsZero(x) THEN FALSE
  ELSE LET e == Min(x.e, y.e)
           n == Max(Len(x.m) + x.e - e, Len(y.m) + y.e - e)
       IN  CmpBits(Align(x, e, n), Align(y, e, n)) = 1

\* the literal 1e-10 = 0x1.b7cdfd9d7bdbbp-34
Epsilon ==
  [k |-> "fin", neg |-> FALSE,
   m |-> <<1, 1,0,1,1, 0,1,1,1, 1,1,0,0, 1,1,0,1, 1,1,1,1, 1,1,0,1, 1,0,0,1,
           1,1,0,1, 0,1,1,1, 1,0,1,1, 1,1,0,1, 1,0,1,1, 1,0,1,1>>,
   e |-> -86]

\* ------------------------------------------------------------------------
\* Loops
\* ------------------------------------------------------------------------
\* the <<i, j>> visited by  for (i..hiI) { for (j = 0; j <= hiJ; j++) {..} },
\* in the order the body runs
RECURSIVE InnerPairs(_, _, _)
InnerPairs(i, j, hiJ) ==
  IF j > hiJ THEN <<>> ELSE << <<i, j>> >> \o InnerPairs(i, j + 1, hiJ)

RECURSIVE LoopPairs(_, _, _)
LoopPairs(i, hiI, hiJ) ==
  IF i > hiI THEN <<>> ELSE InnerPairs(i, 0, hiJ) \o LoopPairs(i + 1, hiI, hiJ)

\* ------------------------------------------------------------------------
\* Cache keys: template literals over the numeric arguments.  The arguments
\* enumerated here are integers below 1e21, which print as decimal digits.
\* ------------------------------------------------------------------------
MeshKey(L, B, Nx, Ny) ==
  ToString(L) \o "-" \o ToString(B) \o "-" \o ToString(Nx) \o "-" \o ToString(Ny)

\* (variant: the key leaves out L)
CoordKey_NoL(L, B, Nx, Ny) ==
  ToString(B) \o "-" \o ToString(Nx) \o "-" \o ToString(Ny)

CoordKey(L, B, Nx, Ny) ==
  ToString(L) \o "-" \o ToString(B) \o "-" \o ToString(Nx) \o "-" \o ToString(Ny)

ElemKey(Nx, Ny) == ToString(Nx) \o "-" \o ToString(Ny)

\* ------------------------------------------------------------------------
\* The loops of calculateCoordinates and generateElements (cache miss path)
\* ------------------------------------------------------------------------
CoordLoop(L, B, Nx, Ny) ==
  LET bNy == FDiv(FromInt(B), Ny)
      P   == LoopPairs(0, Nx, Ny)
  IN  [k \in 1..Len(P) |->
         << FDiv(FMul(P[k][1], FromInt(L)), Nx), FMul(P[k][2], bNy), Zero >>]

\* (variant: second and third corner one further, n1 + Ny + 2 and n1 + Ny + 3)
ElemLoop_CornersShifted(Nx, Ny) ==
  LET P == LoopPairs(0, Nx - 1, Ny - 1)
  IN  [k \in 1..Len(P) |->
         LET n1 == P[k][1] * (Ny + 1)
             j  == P[k][2]
         IN  << j + n1, j + n1 + Ny + 2, j + n1 + Ny + 3, j + n1 + 1 >>]

\* (variant: columns numbered with stride Ny instead of Ny + 1)
ElemLoop_Stride(Nx, Ny) ==
  LET P == LoopPairs(0, Nx - 1, Ny - 1)
  IN  [k \in 1..Len(P) |->
         LET n1 == P[k][1] * Ny
             j  == P[k][2]
         IN  << j + n1, j + n1 + Ny + 1, j + n1 + Ny + 2, j + n1 + 1 >>]

ElemLoop(Nx, Ny) ==
  LET P == LoopPairs(0, Nx - 1, Ny - 1)
  IN  [k \in 1..Len(P) |->
         LET n1 == P[k][1] * (Ny + 1)
             j  == P[k][2]
         IN  << j + n1, j + n1 + Ny + 1, j + n1 + Ny + 2, j + n1 + 1 >>]

\* ------------------------------------------------------------------------
\* meshRectangularPlate: the baseline generator (nothing cached, new arrays)
\* ------------------------------------------------------------------------
meshRectangularPlate(L, B, Nx, Ny) ==
  LET npx == Nx + 1
      npy == Ny + 1
      nx  == [i \in 0..(npx - 1) |-> FDiv(FMul(i, FromInt(L)), Nx)]
      ny  == [i \in 0..(npy - 1) |-> FDiv(FMul(i, FromInt(B)), Ny)]
      xx  == [j \in 0..(npy - 1) |-> [i \in 0..(npx - 1) |-> nx[i]]]
      yy  == [j \in 0..(npy - 1) |-> [i \in 0..(npx - 1) |-> ny[j]]]
      P   == LoopPairs(0, npx - 1, npy - 1)
      NodeNo == [j \in 0..(npy - 1) |-> [i \in 0..(npx - 1) |->
                   (CHOOSE k \in 1..Len(P) : P[k] = <<i, j>>) - 1]]
      Q   == LoopPairs(0, npx - 2, npy - 2)
  IN  [coordinates |-> [k \in 1..Len(P) |->
                          << xx[P[k][2]][P[k][1]], yy[P[k][2]][P[k][1]], Zero >>],
       elements    |-> [k \in 1..Len(Q) |->
                          LET i == Q[k][1]
                              j == Q[k][2]
                          IN  << NodeNo[j][i], NodeNo[j][i + 1],
                                 NodeNo[j + 1][i + 1], NodeNo[j + 1][i] >>],
       nel   |-> Nx * Ny,
       nnode |-> (Nx + 1) * (Ny + 1)]

\* ------------------------------------------------------------------------
\* compareMeshResults: verdict, console.error text and the reported index
\* ------------------------------------------------------------------------
\* Math.abs(coordV2[d] - coordOriginal[d]) > 1e-10 for d = 0, 1 or 2
CoordBad(c1, c2) == \E d \in 1..3 : FGt(FAbsDiff(c1[d], c2[d]), Epsilon)

\* !elementV2.every((node, j) => node === elementOriginal[j])
ElemBad(e1, e2) == ~ \A j \in 1..Len(e1) : j <= Len(e2) /\ e1[j] = e2[j]

First(S) == CHOOSE i \in S : \A k \in S : i <= k

\* the verdict, given the indices at which the coordinate loop and the
\* element loop would return false
Verdict(meshV2, meshOriginal, cBad, eBad) ==
  IF meshV2.nel # meshOriginal.nel \/ meshV2.nnode # meshOriginal.nnode
    THEN [ok |-> FALSE, error |-> "Mismatch in total elements or nodes", index |-> -1]
  ELSE IF Len(meshV2.coordinates) # Len(meshOriginal.coordinates)
    THEN [ok |-> FALSE, error |-> "Mismatch in coordinates length", index |-> -1]
  ELSE IF cBad # {}
    THEN [ok |-> FALSE, error |-> "Coordinate mismatch at index", index |-> First(cBad) - 1]
  ELSE IF Len(meshV2.elements) # Len(meshOriginal.elements)
    THEN [ok |-> FALSE, error |-> "Mismatch in elements length", index |-> -1]
  ELSE IF eBad # {}
    THEN [ok |-> FALSE, error |-> "Element mismatch at index", index |-> First(eBad) - 1]
  ELSE [ok |-> TRUE, error |-> "", index |-> -1]

compareMeshResults(meshV2, meshOriginal) ==
  Verdict(meshV2, meshOriginal,
          {i \in 1..Len(meshV2.coordinates) :
             CoordBad(meshV2.coordinates[i], meshOriginal.coordinates[i])},
          {i \in 1..Len(meshV2.elements) :
             ElemBad(meshV2.elements[i], meshOriginal.elements[i])})

\* ------------------------------------------------------------------------
\* State
\* ------------------------------------------------------------------------
VARIABLES
  meshCache,         \* Map: key -> reference of a result object
  coordinatesCache,  \* Map: key -> reference of a Node[]
  elementsCache,     \* Map: key -> reference of an Element[]
  heap,              \* the arrays created so far; a reference is an index
  results,           \* the result objects created so far, likewise
  last,              \* the latest call of an exported function and its outcome
  prev,              \* the call before it
  ncalls,            \* number of calls made
  bench,             \* the component state: params and benchmarkResults
  cmp                \* arguments and outcome of a compareMeshResults call

vars == << meshCache, coordinatesCache, elementsCache, heap, results,
           last, prev, ncalls, bench, cmp >>

cacheVars == << meshCache, coordinatesCache, elementsCache, heap, results >>

\* bounds of the exploration
MaxCalls == 3
MaxNx == 1
MaxNy == 1
MaxBenchNx == 2
MaxBenchNy == 5
MaxCmpNx == 1
MaxCmpNy == 2

LValues == {1, 2}
BValues == {1}
BenchLValues == {1, 3}
BenchBValues == {1, 3, 2^20}

Undefined == 0
NoCall == [op |-> "none", args |-> <<0, 0, 0, 0>>, ret |-> Undefined,
           hit |-> FALSE, ranCoords |-> FALSE, ranElems |-> FALSE]
EmptyMap == << >>
NoBench == [params |-> <<1, 1, 1, 1>>,
            benchmarkResults |-> [ran |-> FALSE, v2Nodes |-> 0, originalNodes |-> 0,
                                  v2Elements |-> 0, originalElements |-> 0,
                                  resultsMatch |-> FALSE]]
NoMesh == [coordinates |-> <<>>, elements |-> <<>>, nel |-> 0, nnode |-> 0]
NoVerdict == [ok |-> FALSE, error |-> "not called", index |-> -1]
NoCmp == [a |-> NoMesh, b |-> NoMesh, out |-> NoVerdict]

MapHas(m, k) == k \in DOMAIN m
MapGet(m, k) == IF k \in DOMAIN m THEN m[k] ELSE Undefined
MapSet(m, k, v) == [x \in (DOMAIN m) \cup {k} |-> IF x = k THEN v ELSE m[x]]

\* an array reference is an object and so truthy; undefined is falsy
Truthy(ref) == ref # Undefined

\* ------------------------------------------------------------------------
\* The memoized generator
\* ------------------------------------------------------------------------
\* a new array stored on the heap and entered in a cache under key
NewArray(cache, key, h, arr) ==
  [cache |-> MapSet(cache, key, Len(h) + 1), heap |-> Append(h, arr),
   ref |-> Len(h) + 1, ran |-> TRUE]

calculateCoordinates(cc, h, L, B, Nx, Ny) ==
  IF Truthy(MapGet(cc, CoordKey(L, B, Nx, Ny)))
    THEN [cache |-> cc, heap |-> h, ref |-> MapGet(cc, CoordKey(L, B, Nx, Ny)),
          ran |-> FALSE]
    ELSE NewArray(cc, CoordKey(L, B, Nx, Ny), h, CoordLoop(L, B, Nx, Ny))

\* (variant: the cached array is never reused)
generateElements_NoLookup(ec, h, Nx, Ny) ==
  NewArray(ec, ElemKey(Nx, Ny), h, ElemLoop(Nx, Ny))

generateElements(ec, h, Nx, Ny) ==
  IF Truthy(MapGet(ec, ElemKey(Nx, Ny)))
    THEN [cache |-> ec, heap |-> h, ref |-> MapGet(ec, ElemKey(Nx, Ny)),
          ran |-> FALSE]
    ELSE NewArray(ec, ElemKey(Nx, Ny), h, ElemLoop(Nx, Ny))

\* the miss path of meshRectangularPlateV2 once both arrays are at hand
\* (c and e the outcomes of calculateCoordinates and generateElements):
\* a new result object, stored under cacheKey and returned
NewResult(mc, rs, cacheKey, Nx, Ny, c, e) ==
  [mc |-> MapSet(mc, cacheKey, Len(rs) + 1), cc |-> c.cache, ec |-> e.cache,
   heap |-> e.heap,
   results |-> Append(rs, [coordinates |-> c.ref, elements |-> e.ref,
                           nel |-> Nx * Ny, nnode |-> (Nx + 1) * (Ny + 1)]),
   ret |-> Len(rs) + 1, hit |-> FALSE, ranCoords |-> c.ran, ranElems |-> e.ran]

\* the miss path once the coordinates are at hand
WithCoordinates(mc, ec, rs, cacheKey, Nx, Ny, c) ==
  NewResult(mc, rs, cacheKey, Nx, Ny, c, generateElements(ec, c.heap, Nx, Ny))

\* (variant: the full-mesh cache is written but never read)
meshRectangularPlateV2_NoLookup(mc, cc, ec, h, rs, L, B, Nx, Ny) ==
  IF FALSE
    THEN [mc |-> mc, cc |-> cc, ec |-> ec, heap |-> h, results |-> rs,
          ret |-> mc[MeshKey(L, B, Nx, Ny)], hit |-> TRUE,
          ranCoords |-> FALSE, ranElems |-> FALSE]
    ELSE WithCoordinates(mc, ec, rs, MeshKey(L, B, Nx, Ny), Nx, Ny,
                         calculateCoordinates(cc, h, L, B, Nx, Ny))

\* the caches, heap and return value after meshRectangularPlateV2(L, B, Nx, Ny)
meshRectangularPlateV2(mc, cc, ec, h, rs, L, B, Nx, Ny) ==
  IF MapHas(mc, MeshKey(L, B, Nx, Ny))
    THEN [mc |-> mc, cc |-> cc, ec |-> ec, heap |-> h, results |-> rs,
          ret |-> mc[MeshKey(L, B, Nx, Ny)], hit |-> TRUE,
          ranCoords |-> FALSE, ranElems |-> FALSE]
    ELSE WithCoordinates(mc, ec, rs, MeshKey(L, B, Nx, Ny), Nx, Ny,
                         calculateCoordinates(cc, h, L, B, Nx, Ny))

\* what a caller reads through a result reference
Deref(rs, h, ref) ==
  [coordinates |-> h[rs[ref].coordinates], elements |-> h[rs[ref].elements],
   nel |-> rs[ref].nel, nnode |-> rs[ref].nnode]

\* ------------------------------------------------------------------------
\* Actions
\* ------------------------------------------------------------------------
Call(L, B, Nx, Ny) ==
  /\ ncalls < MaxCalls
  /\ \E r \in {meshRectangularPlateV2(meshCache, coordinatesCache, elementsCache,
                                      heap, results, L, B, Nx, Ny)} :
       /\ meshCache' = r.mc
       /\ coordinatesCache' = r.cc
       /\ elementsCache' = r.ec
       /\ heap' = r.heap
       /\ results' = r.results
       /\ last' = [op |-> "generate", args |-> <<L, B, Nx, Ny>>, ret |-> r.ret,
                   hit |-> r.hit, ranCoords |-> r.ranCoords, ranElems |-> r.ranElems]
  /\ prev' = last
  /\ ncalls' = ncalls + 1

\* a caller invokes meshRectangularPlateV2
Generate ==
  \E L \in LValues, B \in BValues, Nx \in 0..MaxNx, Ny \in 1..MaxNy :
    /\ Call(L, B, Nx, Ny)
    /\ UNCHANGED << bench, cmp >>

\* a caller invokes clearMeshCache
ClearMeshCache ==
  /\ ncalls < MaxCalls
  /\ meshCache' = EmptyMap
  /\ last' = [NoCall EXCEPT !.op = "clear"]
  /\ prev' = last
  /\ ncalls' = ncalls + 1
  /\ UNCHANGED << coordinatesCache, elementsCache, heap, results, bench, cmp >>

\* the Run Benchmark button
runBenchmark ==
  /\ Call(bench.params[1], bench.params[2], bench.params[3], bench.params[4])
  /\ \E meshV2 \in {Deref(results', heap', last'.ret)},
        meshOriginal \in {meshRectangularPlate(bench.params[1], bench.params[2],
                                               bench.params[3], bench.params[4])} :
       bench' = [bench EXCEPT !.benchmarkResults =
                   [ran |-> TRUE,
                    v2Nodes |-> meshV2.nnode, originalNodes |-> meshOriginal.nnode,
                    v2Elements |-> meshV2.nel, originalElements |-> meshOriginal.nel,
                    resultsMatch |-> compareMeshResults(meshV2, meshOriginal).ok]]
  /\ UNCHANGED cmp

\* compareMeshResults applied to the pair held in cmp
Compare ==
  /\ cmp.out = NoVerdict
  /\ cmp' = [cmp EXCEPT !.out = compareMeshResults(cmp.a, cmp.b)]
  /\ UNCHANGED << cacheVars, last, prev, ncalls, bench >>

InitCaches ==
  /\ meshCache = EmptyMap
  /\ coordinatesCache = EmptyMap
  /\ elementsCache = EmptyMap
  /\ heap = <<>>
  /\ results = <<>>
  /\ last = NoCall
  /\ prev = NoCall
  /\ ncalls = 0

\* the module with its three empty Maps and callers of the exported functions
Init == InitCaches /\ bench = NoBench /\ cmp = NoCmp
Next == Generate \/ ClearMeshCache
Spec == Init /\ [][Next]_vars

\* the component after the user has typed the four parameters
InitBench ==
  /\ InitCaches
  /\ \E L \in BenchLValues, B \in BenchBValues, Nx \in 0..MaxBenchNx, Ny \in 0..MaxBenchNy :
       bench = [NoBench EXCEPT !.params = <<L, B, Nx, Ny>>]
  /\ cmp = NoCmp
NextBench == runBenchmark
SpecBench == InitBench /\ [][NextBench]_vars

\* one corner of element k (1-based) of mesh m replaced by v
WithCorner(m, k, c, v) ==
  [m EXCEPT !.elements = [x \in 1..Len(m.elements) |->
     IF x = k THEN [m.elements[k] EXCEPT ![c] = v] ELSE m.elements[x]]]

DerefResult(r) == Deref(r.results, r.heap, r.ret)

\* what meshRectangularPlateV2 returns when all three caches are empty
FreshV2(L, B, Nx, Ny) ==
  DerefResult(meshRectangularPlateV2(EmptyMap, EmptyMap, EmptyMap, <<>>, <<>>,
                                     L, B, Nx, Ny))

CmpTuples ==
  {<<L, B, Nx, Ny>> : L \in {1}, B \in {1, 2^20}, Nx \in 0..MaxCmpNx, Ny \in {0, 5} \cup 1..MaxCmpNy}

\* the verifier's arguments: a result of the memoized generator against a
\* result of the baseline generator, for the same or for other parameters,
\* or with one corner of one element off by one
InitCmp ==
  /\ InitCaches
  /\ bench = NoBench
  /\ \E s \in CmpTuples : \E a \in {FreshV2(s[1], s[2], s[3], s[4])} :
       \E t \in CmpTuples : \E b \in {meshRectangularPlate(t[1], t[2], t[3], t[4])} :
         \/ cmp = [a |-> a, b |-> b, out |-> NoVerdict]
         \/ /\ s = t
            /\ \E k \in 1..Len(b.elements), c \in 1..4 :
                 cmp = [a |-> a, b |-> WithCorner(b, k, c, b.elements[k][c] + 1),
                        out |-> NoVerdict]
NextCmp == Compare
SpecCmp == InitCmp /\ [][NextCmp]_vars

\* ------------------------------------------------------------------------
\* Properties
\* ------------------------------------------------------------------------
LastMesh == Deref(results, heap, last.ret)
ValidArgs(t) == t[3] > 0 /\ t[4] > 0
Generated == last.op = "generate"
BenchRan == bench.benchmarkResults.ran

\* x <= y on doubles x >= 0, y > 0 (false when x is NaN)
FLe(x, y) == x.k # "nan" /\ ~FGt(x, y)

\* C1: for positive Nx, Ny the verifier accepts the memoized generator's
\* result against the baseline generator's result for the same parameters.
C1_VerifierAccepts ==
  (BenchRan /\ ValidArgs(bench.params)) => bench.benchmarkResults.resultsMatch

ElementsAre(m, Nx, Ny, a, b) ==
  \A i \in 0..(Nx - 1), j \in 0..(Ny - 1) :
    LET n1 == i * (Ny + 1) + j
    IN  /\ i * Ny + j + 1 \in 1..Len(m.elements)
        /\ m.elements[i * Ny + j + 1] = << n1, n1 + a, n1 + b, n1 + 1 >>

\* C3 as stated: element (i, j) is [n1, n1+(Ny+1)+1, n1+(Ny+1)+2, n1+1].
C3_Original ==
  (Generated /\ ValidArgs(last.args)) =>
    ElementsAre(LastMesh, last.args[3], last.args[4],
                (last.args[4] + 1) + 1, (last.args[4] + 1) + 2)

\* C3 amended: element (i, j), at position i*Ny + j, is
\* [n1, n1+(Ny+1), n1+(Ny+1)+1, n1+1]; for Nx=2, Ny=2 element 0 is [0,3,4,1].
C3_Amended ==
  (Generated /\ ValidArgs(last.args)) =>
    ElementsAre(LastMesh, last.args[3], last.args[4],
                last.args[4] + 1, (last.args[4] + 1) + 1)

C3_Witness ==
  /\ Generated /\ last.args[3] = 2 /\ last.args[4] = 2
  /\ LastMesh.elements[1] = <<0, 3, 4, 1>>
  /\ LastMesh.elements[4] = <<4, 7, 8, 5>>

\* C4: for positive Nx, Ny the node at index i*(Ny+1) + j is
\* (i*L/Nx, j*B/Ny, 0).
C4_NodePositions ==
  (Generated /\ ValidArgs(last.args)) =>
    LET m  == LastMesh
        L  == last.args[1]
        B  == last.args[2]
        Nx == last.args[3]
        Ny == last.args[4]
    IN  \A i \in 0..Nx, j \in 0..Ny :
          /\ i * (Ny + 1) + j + 1 \in 1..Len(m.coordinates)
          /\ m.coordinates[i * (Ny + 1) + j + 1] =
               << FDiv(FMul(i, FromInt(L)), Nx), FDiv(FMul(j, FromInt(B)), Ny), Zero >>

\* C5: whatever calls and clears came before, a call returns exactly what a
\* computation with empty caches returns for its own parameters.
C5_CacheTransparent ==
  Generated =>
    LastMesh = FreshV2(last.args[1], last.args[2], last.args[3], last.args[4])

C5_Witness ==
  /\ Generated /\ ~last.hit /\ ~last.ranCoords /\ ~last.ranElems
  /\ prev.op = "clear"
  /\ ValidArgs(last.args)

\* C6: a call repeating the arguments of the call just before it returns
\* the same object, computes nothing and leaves every cache as it was.
C6_RepeatIsHit ==
  [][(last.op = "generate" /\ last'.op = "generate" /\ last'.args = last.args)
       => /\ last'.ret = last.ret
          /\ last'.hit /\ ~last'.ranCoords /\ ~last'.ranElems
          /\ cacheVars' = cacheVars]_vars

C6_Witness ==
  /\ Generated /\ prev.op = "generate" /\ prev.args = last.args
  /\ last.ret = prev.ret /\ last.hit

\* C7: a call with Nx <= 0 or Ny <= 0 returns no result and leaves no entry
\* for its parameters in any of the three caches.
C7_Rejected ==
  (Generated /\ ~ValidArgs(last.args)) =>
    /\ last.ret = Undefined
    /\ ~MapHas(meshCache, MeshKey(last.args[1], last.args[2], last.args[3], last.args[4]))
    /\ ~MapHas(coordinatesCache, CoordKey(last.args[1], last.args[2], last.args[3], last.args[4]))
    /\ ~MapHas(elementsCache, ElemKey(last.args[3], last.args[4]))

\* C8: right after clearMeshCache none of the three caches holds an entry.
C8_AllDropped ==
  last.op = "clear" =>
    /\ meshCache = EmptyMap
    /\ coordinatesCache = EmptyMap
    /\ elementsCache = EmptyMap

\* the five checks of the verifier, each stated on its own
FiveChecks(a, b) ==
  /\ a.nel = b.nel /\ a.nnode = b.nnode
  /\ Len(a.coordinates) = Len(b.coordinates)
  /\ \A i \in 1..Len(a.coordinates) : \A d \in 1..3 :
       FLe(FAbsDiff(a.coordinates[i][d], b.coordinates[i][d]), Epsilon)
  /\ Len(a.elements) = Len(b.elements)
  /\ \A i \in 1..Len(a.elements) : \A c \in 1..4 :
       a.elements[i][c] = b.elements[i][c]

\* C9: the verifier returns true exactly when the five checks hold, and when
\* only element corners differ it reports the smallest differing element index.
C9_VerdictIffChecks ==
  cmp.out # NoVerdict =>
    /\ cmp.out.ok <=> FiveChecks(cmp.a, cmp.b)
    /\ ( /\ cmp.a.nel = cmp.b.nel /\ cmp.a.nnode = cmp.b.nnode
         /\ cmp.a.coordinates = cmp.b.coordinates
         /\ Len(cmp.a.elements) = Len(cmp.b.elements)
         /\ cmp.a.elements # cmp.b.elements )
       => /\ ~cmp.out.ok
          /\ cmp.out.index + 1 \in 1..Len(cmp.a.elements)
          /\ cmp.a.elements[cmp.out.index + 1] # cmp.b.elements[cmp.out.index + 1]
          /\ \A k \in 1..cmp.out.index : cmp.a.elements[k] = cmp.b.elements[k]

AllTuples == LValues \X BValues \X (0..MaxNx) \X (1..MaxNy)

Coherent ==
  /\ \A t \in AllTuples :
       MapHas(meshCache, MeshKey(t[1], t[2], t[3], t[4])) =>
         /\ MapHas(coordinatesCache, CoordKey(t[1], t[2], t[3], t[4]))
         /\ MapHas(elementsCache, ElemKey(t[3], t[4]))
         /\ results[meshCache[MeshKey(t[1], t[2], t[3], t[4])]].coordinates
              = coordinatesCache[CoordKey(t[1], t[2], t[3], t[4])]
         /\ results[meshCache[MeshKey(t[1], t[2], t[3], t[4])]].elements
              = elementsCache[ElemKey(t[3], t[4])]
  /\ \A s \in AllTuples, t \in AllTuples :
       ( /\ s[3] = t[3] /\ s[4] = t[4]
         /\ MapHas(meshCache, MeshKey(s[1], s[2], s[3], s[4]))
         /\ MapHas(meshCache, MeshKey(t[1], t[2], t[3], t[4])) )
       => results[meshCache[MeshKey(s[1], s[2], s[3], s[4])]].elements
            = results[meshCache[MeshKey(t[1], t[2], t[3], t[4])]].elements

Retained ==
  /\ \A k \in DOMAIN coordinatesCache :
       /\ k \in DOMAIN coordinatesCache'
       /\ coordinatesCache'[k] = coordinatesCache[k]
  /\ \A k \in DOMAIN elementsCache :
       /\ k \in DOMAIN elementsCache'
       /\ elementsCache'[k] = elementsCache[k]
  /\ \A r \in 1..Len(heap) : r <= Len(heap') /\ heap'[r] = heap[r]

====
